---- MODULE Spec2Model ----
(***************************************************************************)
(* Lowering of field access (get/put, instance/static) and of array        *)
(* allocation (newarray, multianewarray) to IR, after                      *)
(* src/hotspot/share/opto/parse3.cpp.                                      *)
(*                                                                         *)
(* One action lowers one bytecode.  The IR nodes, barriers, traps and the  *)
(* operand-stack pushes and pops a handler performs are appended, in       *)
(* program order, to the log `events`.                                     *)
(***************************************************************************)
EXTENDS Integers, Sequences, FiniteSets, TLC

VARIABLES
    method,                 \* method(): the method being parsed
    support_IRIW,           \* support_IRIW_for_not_multiple_copy_atomic_cpu
    MultiArrayExpandLimit,  \* the VM flag of that name
    iter,                   \* iter(): the bytecode being lowered and its resolved operands
    entry,                  \* operand stack when the handler was entered
    stack,                  \* abstract operand stack
    stopped,                \* stopped(): the path was terminated
    events,                 \* what the handler did, in order
    wrote_fields,           \* Parse::_wrote_fields
    wrote_volatile,         \* Parse::_wrote_volatile
    wrote_final,            \* Parse::_wrote_final
    wrote_stable,           \* Parse::_wrote_stable
    alloc_with_final        \* Parse::_alloc_with_final is set

vars == <<method, support_IRIW, MultiArrayExpandLimit, iter, entry, stack, stopped,
          events, wrote_fields, wrote_volatile, wrote_final, wrote_stable,
          alloc_with_final>>

config == <<method, support_IRIW, MultiArrayExpandLimit>>

-----------------------------------------------------------------------------
(* Values on the abstract stack.  An int node carries its TypeInt range     *)
(* [lo, hi]; it is a constant exactly when lo = hi.                         *)

Val(k, lo, hi) == [k |-> k, lo |-> lo, hi |-> hi, ptr |-> "", exact |-> FALSE]
Oop       == Val("oop", 0, 0)       \* a reference that may be null
NullCon   == Val("null", 0, 0)      \* the null constant
NewObj    == Val("alloc", 0, 0)     \* the result of an allocation in this method
ValueType == Val("vt", 0, 0)        \* a ValueTypeNode
DoubleVal == Val("double", 0, 0)
Top       == Val("top", 0, 0)       \* second slot of a two-slot value

(* An entry of the log.                                                     *)
Ev(op, k, mo, n, args) == [op |-> op, k |-> k, mo |-> mo, n |-> n, args |-> args]

(* The path under construction, as the handlers see and change it.          *)
Cur == [stack |-> stack, stopped |-> stopped, events |-> events,
        wrote_fields |-> wrote_fields, wrote_volatile |-> wrote_volatile,
        wrote_final |-> wrote_final, wrote_stable |-> wrote_stable,
        alloc_with_final |-> alloc_with_final]

emit(p, e) == [p EXCEPT !.events = Append(@, e)]

peek(p, depth) == p.stack[Len(p.stack) - depth]

push(p, v) == [emit(p, Ev("push", v.k, "", 1, <<>>)) EXCEPT !.stack = Append(@, v)]

pop(p) == [emit(p, Ev("pop", "", "", 1, <<>>))
             EXCEPT !.stack = SubSeq(@, 1, Len(@) - 1)]

push_pair(p, v) == [emit(p, Ev("push", v.k, "", 2, <<>>))
                      EXCEPT !.stack = @ \o <<v, Top>>]

pop_pair(p) == [emit(p, Ev("pop", "", "", 2, <<>>))
                  EXCEPT !.stack = SubSeq(@, 1, Len(@) - 2)]

type2size(bt) == IF bt = "T_DOUBLE" THEN 2 ELSE 1

push_node(p, bt, v) == IF type2size(bt) = 1 THEN push(p, v) ELSE push_pair(p, v)

uncommon_trap(p, reason, action) ==
    [emit(p, Ev("trap", reason, action, 0, <<>>)) EXCEPT !.stopped = TRUE]

insert_mem_bar(p, opcode) == emit(p, Ev("membar", opcode, "", 0, <<>>))

(* null_check of the receiver: a null constant is detected at compile time  *)
(* and ends the path; anything else leaves it live.                         *)
null_check(p, v) ==
    IF v.k = "null" THEN uncommon_trap(p, "null_check", "Action_none") ELSE p

(* null_assert of a value just loaded: the assertion is planted, the path   *)
(* goes on with the value known to be null.                                 *)
null_assert(p) == emit(p, Ev("null_assert", "", "", 0, <<>>))

-----------------------------------------------------------------------------
(* Classes: B extends A; V is a value type unrelated to both.               *)

Classes == {"A", "B", "V"}

super_of(c) == IF c = "B" THEN "A" ELSE "none"

is_subclass_of(c, d) == c = d \/ super_of(c) = d

is_valuetype(c) == c = "V"

InitStates == {"not_started", "in_progress", "initialized"}

is_initialized(state) == state = "initialized"

(* The check lines 49-51 reject: any method while the holder is being      *)
(* initialized.                                                             *)
static_field_ok_being_initialized(field, m) ==
    field.holder_state = "in_progress"

(* The check without subclasses: only methods of the holder itself.         *)
static_field_ok_holder_only(field, m) ==
    IF m.holder = field.holder
    THEN IF m.is_static
         THEN m.name = "<clinit>"
         ELSE m.name = "<init>"
    ELSE FALSE

static_field_ok_in_clinit(field, m) ==
    IF is_subclass_of(m.holder, field.holder)
    THEN IF m.is_static
         THEN m.name = "<clinit>"
         ELSE m.name = "<init>"
    ELSE FALSE

-----------------------------------------------------------------------------
(* Field access.                                                            *)

max_jint == 2147483647
min_jint == -max_jint - 1

IntAny == Val("int", min_jint, max_jint)   \* an int node that is no constant

AlwaysAtomicAccesses == FALSE

is_reference(bt) == bt \in {"T_OBJECT", "T_VALUETYPE"}

(* StoreNode::release_if_reference                                          *)
release_if_reference(bt) == IF is_reference(bt) THEN "release" ELSE "unordered"

is_static_constant(field) == field.is_static /\ field.is_constant

(* What a load of the field pushes.                                         *)
LoadedVal(field) ==
    CASE field.layout_type = "T_INT"    -> IntAny
      [] field.layout_type = "T_DOUBLE" -> DoubleVal
      [] field.is_flattened             -> ValueType
      [] OTHER                          -> Oop

(* The type do_get_xxx gives the load (lines 191-223).                      *)
load_type(field, val_null) ==
    IF is_reference(field.layout_type)
    THEN IF ~field.type_loaded THEN "TypeInstPtr::BOTTOM"
         ELSE IF is_static_constant(field) THEN "constant"
         ELSE IF field.layout_type = "T_VALUETYPE" /\ field.is_static /\ ~val_null
              THEN "klass:NotNull"
              ELSE "klass"
    ELSE "basic"

(* The load of a volatile field without its ordering.                      *)
load_mo_unordered(is_vol) == "unordered"

(* Line 230.                                                                *)
load_mo(is_vol) == IF is_vol THEN "acquire" ELSE "unordered"

do_get_xxx(p, obj, field, is_field, con, val_null) ==
    LET bt == field.layout_type
        is_vol == field.is_volatile
        flattened == field.is_flattened
        flattenable == field.is_flattenable
    IN  IF field.is_constant /\ (bt # "T_OBJECT" \/ field.type_loaded) /\ con
        THEN push_node(p, bt, LoadedVal(field))
        ELSE
        LET p1 == emit(p, Ev("adr", "", "", 0, <<>>))
            must_assert_null == is_reference(bt) /\ ~field.type_loaded
            type == load_type(field, val_null)
            p2 == IF support_IRIW /\ field.is_volatile
                  THEN insert_mem_bar(p1, "MemBarVolatile") ELSE p1
            mo == load_mo(is_vol)
            needs_atomic_access == is_vol \/ AlwaysAtomicAccesses
            bt2 == IF ~flattened /\ bt = "T_VALUETYPE" /\ ~flattenable
                   THEN "T_VALUETYPEPTR" ELSE bt
            p3 == IF flattened
                  THEN emit(p2, Ev("load_flattened", bt, "", 0, <<type>>))
                  ELSE emit(p2, Ev("load", bt2, mo,
                                   IF needs_atomic_access THEN 1 ELSE 0, <<type>>))
            p4 == IF type2size(bt2) = 1 THEN push(p3, LoadedVal(field))
                                        ELSE push_pair(p3, LoadedVal(field))
            p5 == IF must_assert_null THEN null_assert(p4) ELSE p4
        IN  IF field.is_volatile THEN insert_mem_bar(p5, "MemBarAcquire") ELSE p5

set_flag(p, name) == emit(p, Ev("flag", name, "", 0, <<>>))

(* The volatile write left unrecorded.                                      *)
set_wrote_volatile_skipped(p) == p

(* Line 356.                                                                *)
set_wrote_volatile(p) == [set_flag(p, "wrote_volatile") EXCEPT !.wrote_volatile = TRUE]

(* The ordering of the store without the volatile case.                     *)
store_mo_plain(is_vol, bt) == release_if_reference(bt)

(* Lines 303-310.                                                           *)
store_mo(is_vol, bt) == IF is_vol THEN "release" ELSE release_if_reference(bt)

do_put_xxx(p, obj, field, is_field) ==
    LET is_vol == field.is_volatile
        is_flattened == field.is_flattened
        p1 == IF is_vol THEN insert_mem_bar(p, "MemBarRelease") ELSE p
        p2 == emit(p1, Ev("adr", "", "", 0, <<>>))
        bt == field.layout_type
        val == IF type2size(bt) = 1 THEN peek(p2, 0) ELSE peek(p2, 1)
        p3 == IF type2size(bt) = 1 THEN pop(p2) ELSE pop_pair(p2)
        p4 == IF bt = "T_DOUBLE" THEN emit(p3, Ev("dstore_rounding", "", "", 0, <<>>))
                                 ELSE p3
        mo == store_mo(is_vol, bt)
    IN  IF is_reference(bt) /\ field.is_flattenable /\ val.k # "vt"
        THEN uncommon_trap(push(p4, NullCon), "Reason_null_check", "Action_none")
        ELSE
        LET needs_atomic_access == is_vol \/ AlwaysAtomicAccesses
            p5 == IF is_reference(bt)
                  THEN IF is_flattened
                       THEN emit(p4, Ev("store_flattened", bt, "", 0, <<>>))
                       ELSE emit(p4, Ev("store", bt, mo, 0, <<>>))
                  ELSE emit(p4, Ev("store", bt, mo,
                                   IF needs_atomic_access THEN 1 ELSE 0, <<>>))
            p6 == IF is_vol /\ ~support_IRIW
                  THEN insert_mem_bar(p5, "MemBarVolatile") ELSE p5
            p7 == IF is_vol /\ is_field
                  THEN set_wrote_volatile(p6)
                  ELSE p6
            p8 == IF is_field
                  THEN [set_flag(p7, "wrote_fields") EXCEPT !.wrote_fields = TRUE]
                  ELSE p7
            p9 == IF is_field /\ field.is_final
                  THEN [set_flag(p8, "wrote_final") EXCEPT !.wrote_final = TRUE]
                  ELSE p8
            p10 == IF is_field /\ field.is_stable
                   THEN [set_flag(p9, "wrote_stable") EXCEPT !.wrote_stable = TRUE]
                   ELSE p9
        IN  IF is_field /\ field.is_final /\ obj.k = "alloc"
            THEN [set_flag(p10, "alloc_with_final") EXCEPT !.alloc_with_final = TRUE]
            ELSE p10

(* The receiver popped without asking whether the put ended the path.       *)
pop_receiver_always(p) == pop(p)

(* Lines 145-148: the receiver is popped after the put, on a live path.     *)
pop_receiver_after_put(p) == IF p.stopped THEN p ELSE pop(p)

do_field_access(p, m, is_get, is_field, field, con, val_null) ==
    IF is_field /\ is_valuetype(field.holder)
    THEN push_node(pop(p), field.layout_type, LoadedVal(field))
    ELSE IF is_field = field.is_static
    THEN uncommon_trap(p, "Reason_unhandled", "Action_none")
    ELSE IF ~is_field /\ ~is_initialized(field.holder_state)
            /\ ~static_field_ok_in_clinit(field, m)
    THEN uncommon_trap(p, "Reason_uninitialized", "Action_reinterpret")
    ELSE IF ~is_get /\ field.is_call_site_target
    THEN uncommon_trap(p, "Reason_unhandled", "Action_reinterpret")
    ELSE IF is_field
    THEN LET obj_depth == IF is_get THEN 0 ELSE type2size(field.layout_type)
             obj == peek(p, obj_depth)
             p1 == null_check(p, obj)
         IN  IF p1.stopped THEN p1
             ELSE IF is_get
             THEN do_get_xxx(pop(p1), obj, field, is_field, con, val_null)
             ELSE pop_receiver_after_put(do_put_xxx(p1, obj, field, is_field))
    ELSE LET obj == Val("mirror", 0, 0)
         IN  IF is_get
             THEN do_get_xxx(p, obj, field, is_field, con, val_null)
             ELSE do_put_xxx(p, obj, field, is_field)

-----------------------------------------------------------------------------
(* The resolved operands of the field bytecodes, and the states they are    *)
(* lowered in.                                                              *)

BasicTypes == {"T_INT", "T_DOUBLE", "T_OBJECT", "T_VALUETYPE"}

(* ciField: flattening applies to non-static value-type fields, the type of *)
(* a flattenable field is loaded with its holder, final fields are not      *)
(* volatile, final and stable fields are the ones that may be constant.     *)
Fields ==
    { f \in [holder : Classes, holder_state : InitStates, is_static : BOOLEAN,
             is_volatile : BOOLEAN, is_final : BOOLEAN, is_stable : BOOLEAN,
             is_flattened : BOOLEAN, is_flattenable : BOOLEAN,
             is_call_site_target : BOOLEAN, layout_type : BasicTypes,
             type_loaded : BOOLEAN, is_constant : BOOLEAN] :
        /\ ~(f.is_volatile /\ f.is_final)
        /\ f.is_flattenable => f.layout_type = "T_VALUETYPE"
        /\ f.is_flattenable => f.type_loaded
        /\ f.is_flattened => f.is_flattenable /\ ~f.is_static
        /\ ~is_reference(f.layout_type) => f.type_loaded
        /\ f.is_call_site_target => f.layout_type = "T_OBJECT" /\ f.type_loaded
        /\ f.is_constant => f.is_final \/ f.is_stable
        /\ f.is_stable => f.is_constant }

Methods ==
    { m \in [holder : {"B"}, is_static : BOOLEAN,
             name : {"<clinit>", "<init>", "other"}] :
        ~(m.is_static /\ m.name = "<init>") }

(* The values a put may find on the stack for a field of this layout.       *)
PutValues(field) ==
    CASE field.layout_type = "T_INT"       -> {<<IntAny>>}
      [] field.layout_type = "T_DOUBLE"    -> {<<DoubleVal, Top>>}
      [] field.layout_type = "T_OBJECT"    -> {<<Oop>>, <<NullCon>>}
      [] field.layout_type = "T_VALUETYPE" -> {<<ValueType>>, <<NullCon>>}

Receivers(is_get, field) ==
    IF is_valuetype(field.holder) THEN {<<ValueType>>}
    ELSE IF is_get THEN {<<Oop>>, <<NullCon>>}
    ELSE {<<Oop>>, <<NullCon>>, <<NewObj>>}

(* The operand stack the bytecode finds: receiver (getfield, putfield),     *)
(* then the value (putfield, putstatic).                                    *)
FieldOperands(is_get, is_field, field) ==
    { r \o v : r \in (IF is_field THEN Receivers(is_get, field) ELSE {<<>>}),
               v \in (IF is_get THEN {<<>>} ELSE PutValues(field)) }

NoBytecode == [bc |-> "none"]

Apply(p) ==
    /\ stack' = p.stack
    /\ stopped' = p.stopped
    /\ events' = p.events
    /\ wrote_fields' = p.wrote_fields
    /\ wrote_volatile' = p.wrote_volatile
    /\ wrote_final' = p.wrote_final
    /\ wrote_stable' = p.wrote_stable
    /\ alloc_with_final' = p.alloc_with_final

(* The driving loop hands a live path the next bytecode.                    *)
Dispatchable == ~stopped /\ iter.bc = "none"

FieldAccess ==
    /\ Dispatchable
    /\ \E is_get \in BOOLEAN, is_field \in BOOLEAN, field \in Fields,
          con \in BOOLEAN, val_null \in BOOLEAN :
         \* a value type has no putfield; an object exists only of a class whose
         \* initialization has begun; the oracles are asked only where read
         /\ ~(is_field /\ ~is_get /\ is_valuetype(field.holder))
         /\ is_field => field.holder_state # "not_started"
         /\ con => is_get /\ field.is_constant
         /\ val_null => ~(is_get /\ field.is_static /\ field.layout_type = "T_VALUETYPE"
                          /\ field.type_loaded)
         /\ \E stk \in FieldOperands(is_get, is_field, field) :
              /\ iter' = [bc |-> "field", is_get |-> is_get, is_field |-> is_field,
                          field |-> field, con |-> con, val_null |-> val_null]
              /\ entry' = stk
              /\ Apply(do_field_access([Cur EXCEPT !.stack = stk], method,
                                       is_get, is_field, field, con, val_null))
    /\ UNCHANGED config

(* The driving loop goes on to the next bytecode of a live path.            *)
Advance ==
    /\ ~stopped
    /\ iter.bc # "none"
    /\ iter' = NoBytecode
    /\ entry' = <<>>
    /\ stack' = <<>>
    /\ events' = <<>>
    /\ UNCHANGED <<config, stopped, wrote_fields, wrote_volatile, wrote_final, wrote_stable,
                   alloc_with_final>>

-----------------------------------------------------------------------------
(* Array allocation.                                                        *)

IntCon(c) == Val("int", c, c)

NullNode == Val("NULL", 0, 0)     \* the terminating null of length[]

NewArray == Val("ary", 0, 0)      \* the result of new_array

find_int_con(n, value_if_unknown) ==
    IF n.k = "int" /\ n.lo = n.hi THEN n.lo ELSE value_if_unknown

(* PhaseTransform::find_int_type: the TypeInt of an int node, else NULL.    *)
find_int_type(n) ==
    IF n.k = "int" THEN [null |-> FALSE, lo |-> n.lo, hi |-> n.hi]
                   ELSE [null |-> TRUE, lo |-> 0, hi |-> 0]

kill_dead_locals(p) == emit(p, Ev("kill_dead_locals", "", "", 0, <<>>))

(* GraphKit::new_array(klass, length, nargs): one AllocateArray node.       *)
new_array(p, klass, length, nargs) == emit(p, Ev("alloc", klass, "", nargs, <<length>>))

(* do_newarray with the liveness hint moved ahead of the class checks.      *)
do_newarray_kill_first(p, klass) ==
    LET p0 == kill_dead_locals(p)
    IN  IF ~klass.loaded
        THEN uncommon_trap(p0, "Reason_unloaded", "Action_reinterpret")
        ELSE IF klass.element_klass # "NULL" /\ klass.element_is_valuetype
                /\ ~klass.element_initialized
        THEN uncommon_trap(p0, "Reason_uninitialized", "Action_reinterpret")
        ELSE LET count_val == peek(p0, 0)
                 p2 == pop(p0)
                 p3 == new_array(p2, "array_klass", count_val, 1)
             IN  push(p3, NewArray)

do_newarray(p, klass) ==
    IF ~klass.loaded
    THEN uncommon_trap(p, "Reason_unloaded", "Action_reinterpret")
    ELSE IF klass.element_klass # "NULL" /\ klass.element_is_valuetype
            /\ ~klass.element_initialized
    THEN uncommon_trap(p, "Reason_uninitialized", "Action_reinterpret")
    ELSE LET p1 == kill_dead_locals(p)
             count_val == peek(p1, 0)
             p2 == pop(p1)
             p3 == new_array(p2, "array_klass", count_val, 1)
         IN  push(p3, NewArray)

do_newarray_bt(p, elem_type) ==
    LET p1 == kill_dead_locals(p)
        count_val == peek(p1, 0)
        p2 == pop(p1)
        p3 == new_array(p2, "typeArrayKlass", count_val, 1)
    IN  push(p3, NewArray)

RECURSIVE expand_multianewarray(_, _, _), expand_elements(_, _, _, _, _)

(* The loop of lines 446-451: what element i and those after it emit.       *)
expand_elements(lengths, ndimensions, nargs, i, length_con) ==
    IF i < length_con
    THEN expand_multianewarray(Tail(lengths), ndimensions - 1, nargs)
           \o <<Ev("store", "T_OBJECT", "unordered", i, <<>>)>>
           \o expand_elements(lengths, ndimensions, nargs, i + 1, length_con)
    ELSE <<>>

(* The expansion with the first element of each array left out.            *)
expand_multianewarray_skip_first(lengths, ndimensions, nargs) ==
    LET length == lengths[1]
        array == <<Ev("alloc", "array_klass", "", nargs, <<length>>)>>
    IN  IF ndimensions > 1
        THEN array \o expand_elements(lengths, ndimensions, nargs, 1,
                                      find_int_con(length, -1))
        ELSE array

(* The nodes expand_multianewarray emits, in order.                         *)
expand_multianewarray(lengths, ndimensions, nargs) ==
    LET length == lengths[1]
        array == <<Ev("alloc", "array_klass", "", nargs, <<length>>)>>
    IN  IF ndimensions > 1
        THEN LET length_con == find_int_con(length, -1)
             IN  IF length_con >= 0
                 THEN array \o expand_elements(lengths, ndimensions, nargs, 0, length_con)
                 ELSE array \o <<Ev("guarantee", "non-constant multianewarray", "", 0, <<>>)>>
        ELSE array

emit_all(p, es) == [p EXCEPT !.events = @ \o es]

(* 32-bit int arithmetic of the heuristic (lines 478-483).                  *)
add32(a, b) ==
    IF a > 0 /\ b > 0 /\ a > max_jint - b THEN (a + min_jint) + (b + min_jint)
    ELSE IF a < 0 /\ b < 0 /\ a < min_jint - b THEN (a - min_jint) + (b - min_jint)
    ELSE a + b

RECURSIVE mul32(_, _)
(* a * b modulo 2^32 for a >= 0 (expand_fanout is never negative), by       *)
(* doubling, so that no intermediate value leaves the int range.            *)
mul32(a, b) ==
    IF a = 0 THEN 0
    ELSE LET half == mul32(a \div 2, b)
             twice == add32(half, half)
         IN  IF a % 2 = 1 THEN add32(twice, b) ELSE twice

MIN2(a, b) == IF a < b THEN a ELSE b

ExpandCap == 100

expand_limit == MIN2(MultiArrayExpandLimit, ExpandCap)

(* The test with a zero length let through.                                 *)
dim_rejected_negative_only(dim_con, count) ==
    dim_con < 0 \/ dim_con > expand_limit \/ count > expand_limit

(* Lines 484-486.                                                           *)
dim_rejected(dim_con, count) ==
    dim_con <= 0 \/ dim_con > expand_limit \/ count > expand_limit

RECURSIVE expand_count_loop(_, _, _, _, _)
(* The loop of lines 480-490 from dimension j on; its value is expand_count. *)
expand_count_loop(length, ndimensions, j, expand_count, expand_fanout) ==
    IF j < ndimensions - 1
    THEN LET dim_con == find_int_con(length[j + 1], -1)
             fanout == mul32(expand_fanout, dim_con)
             count == add32(expand_count, fanout)
         IN  IF dim_rejected(dim_con, count)
             THEN 0
             ELSE expand_count_loop(length, ndimensions, j + 1, count, fanout)
    ELSE expand_count

(* make_runtime_call takes its parameters up to the first null.             *)
RECURSIVE call_parms(_)
call_parms(parms) ==
    IF parms = <<>> \/ Head(parms).k = "NULL" THEN <<>>
    ELSE <<Head(parms)>> \o call_parms(Tail(parms))

RECURSIVE pop_n(_, _)
pop_n(p, n) == IF n = 0 THEN p ELSE pop_n(pop(p), n - 1)

RECURSIVE fill_dims(_, _, _, _)
(* The loop of lines 537-540.                                               *)
fill_dims(p, length, ndimensions, j) ==
    IF j < ndimensions
    THEN fill_dims(emit(p, Ev("store", "T_INT", "unordered", j, <<length[j + 1]>>)),
                   length, ndimensions, j + 1)
    ELSE p

(* The type of the result of the out-of-line call (lines 553-561).          *)
make_from_klass_raw == [ptr |-> "BotPTR", exact |-> FALSE, lo |-> 0, hi |-> max_jint]
cast_to_ptr_type(t, ptr) == [t EXCEPT !.ptr = ptr]
cast_to_exactness(t, exact) == [t EXCEPT !.exact = exact]
cast_to_size(t, size) == [t EXCEPT !.lo = size.lo, !.hi = size.hi]

(* The result type without the size of the outermost length.                *)
result_type_unsized(length0) ==
    cast_to_exactness(cast_to_ptr_type(make_from_klass_raw, "NotNull"), TRUE)

result_type(length0) ==
    LET t1 == cast_to_ptr_type(make_from_klass_raw, "NotNull")
        t2 == cast_to_exactness(t1, TRUE)
        ltype == find_int_type(length0)
    IN  IF ~ltype.null THEN cast_to_size(t2, ltype) ELSE t2

(* The entry points one rank off.                                           *)
multianewarray_Java_shifted(ndimensions) ==
    CASE ndimensions = 2 -> "multianewarray3_Java"
      [] ndimensions = 3 -> "multianewarray4_Java"
      [] ndimensions = 4 -> "multianewarray5_Java"
      [] OTHER           -> "NULL"

multianewarray_Java(ndimensions) ==
    CASE ndimensions = 2 -> "multianewarray2_Java"
      [] ndimensions = 3 -> "multianewarray3_Java"
      [] ndimensions = 4 -> "multianewarray4_Java"
      [] ndimensions = 5 -> "multianewarray5_Java"
      [] OTHER           -> "NULL"

do_multianewarray(p, ndimensions) ==
    LET p1 == kill_dead_locals(p)
        \* length[0 .. ndimensions-1] as they lie on the stack, then the null
        length == SubSeq(p1.stack, Len(p1.stack) - ndimensions + 1, Len(p1.stack))
                    \o <<NullNode>>
        p2 == pop_n(p1, ndimensions)
        expand_count == expand_count_loop(length, ndimensions, 0, 1, 1)
    IN  IF ndimensions = 1 \/ (1 <= expand_count /\ expand_count <= expand_limit)
        THEN LET p3 == emit(p2, Ev("inc_sp", "", "", ndimensions, <<>>))
                 p4 == emit_all(p3, expand_multianewarray(length, ndimensions, 0))
                 p5 == emit(p4, Ev("restore_sp", "", "", 0, <<>>))
             IN  push(p5, NewArray)
        ELSE
        LET fun == multianewarray_Java(ndimensions)
            p3 == IF fun # "NULL"
                  THEN emit(p2, Ev("call", fun, "", ndimensions,
                       call_parms(<<length[1], length[2], length[3],
                                    IF ndimensions > 2 THEN length[4] ELSE NullNode,
                                    IF ndimensions > 3 THEN length[5] ELSE NullNode>>)))
                  ELSE LET d1 == emit(p2, Ev("inc_sp", "", "", ndimensions, <<>>))
                           d2 == new_array(d1, "int[]", IntCon(ndimensions), 0)
                           d3 == fill_dims(d2, length, ndimensions, 0)
                           d4 == emit(d3, Ev("restore_sp", "", "", 0, <<>>))
                       IN  emit(d4, Ev("call", "multianewarrayN_Java", "", ndimensions,
                                       <<Val("dims", 0, 0)>>))
            p4 == emit(p3, Ev("slow_call_ex", "Throwable", "", 0, <<>>))
            type == result_type(length[1])
            p5 == emit(p4, Ev("CheckCastPP", "", "", 0, <<type>>))
        IN  push(p5, [k |-> "ary", lo |-> type.lo, hi |-> type.hi,
                      ptr |-> type.ptr, exact |-> type.exact])

-----------------------------------------------------------------------------
(* The operands of the array bytecodes.                                     *)

MaxRank == 6        \* ranks of multianewarray lowered on their own
PathMaxRank == 2    \* ranks of multianewarray lowered among other bytecodes

LenVals == {IntAny, IntCon(0), IntCon(2), IntCon(3), IntCon(4), IntCon(max_jint)}

ExpandLimits == {6, 2 * ExpandCap}

ArrayKlasses ==
    { k \in [loaded : BOOLEAN, element_klass : {"NULL", "klass"},
             element_is_valuetype : BOOLEAN, element_initialized : BOOLEAN] :
        /\ k.element_klass = "NULL" => ~k.element_is_valuetype
        /\ ~k.element_is_valuetype => k.element_initialized }

ANewArray ==
    /\ Dispatchable
    /\ \E klass \in ArrayKlasses, len \in LenVals :
         /\ iter' = [bc |-> "anewarray", klass |-> klass]
         /\ entry' = <<len>>
         /\ Apply(do_newarray([Cur EXCEPT !.stack = <<len>>], klass))
    /\ UNCHANGED config

NewArrayBt ==
    /\ Dispatchable
    /\ \E elem_type \in {"T_INT", "T_DOUBLE"}, len \in LenVals :
         /\ iter' = [bc |-> "newarray", elem_type |-> elem_type]
         /\ entry' = <<len>>
         /\ Apply(do_newarray_bt([Cur EXCEPT !.stack = <<len>>], elem_type))
    /\ UNCHANGED config

MultiANewArray(max_rank) ==
    /\ Dispatchable
    /\ \E ndimensions \in 1..max_rank :
         \E lens \in [1..ndimensions -> LenVals] :
           /\ iter' = [bc |-> "multianewarray", ndimensions |-> ndimensions]
           /\ entry' = lens
           /\ Apply(do_multianewarray([Cur EXCEPT !.stack = lens], ndimensions))
    /\ UNCHANGED config

InitPath ==
    /\ iter = NoBytecode
    /\ entry = <<>>
    /\ stack = <<>>
    /\ stopped = FALSE
    /\ events = <<>>
    /\ wrote_fields = FALSE
    /\ wrote_volatile = FALSE
    /\ wrote_final = FALSE
    /\ wrote_stable = FALSE
    /\ alloc_with_final = FALSE

(* Any method on either kind of platform, the expansion limit at the cap.   *)
Init ==
    /\ method \in Methods
    /\ support_IRIW \in BOOLEAN
    /\ MultiArrayExpandLimit = ExpandCap
    /\ InitPath

Next ==
    \/ FieldAccess
    \/ ANewArray
    \/ NewArrayBt
    \/ MultiANewArray(PathMaxRank)
    \/ Advance

Spec == Init /\ [][Next]_vars

(* The array bytecodes alone, under each expansion limit.                   *)
InitArray ==
    /\ method = [holder |-> "B", is_static |-> FALSE, name |-> "other"]
    /\ support_IRIW = FALSE
    /\ MultiArrayExpandLimit \in ExpandLimits
    /\ InitPath

NextArray ==
    \/ ANewArray
    \/ NewArrayBt
    \/ MultiANewArray(MaxRank)
    \/ Advance

SpecArray == InitArray /\ [][NextArray]_vars

-----------------------------------------------------------------------------
(* Properties.  A handler has acted when iter holds its bytecode; events is *)
(* then what it did and entry the operand stack it found.                   *)

FieldDone == iter.bc = "field"

EvIdx == 1..Len(events)

IsTrap(e, reason, action) == e.op = "trap" /\ e.k = reason /\ e.mo = action

AnyTrap == \E i \in EvIdx : events[i].op = "trap"

(* The handler did one thing only, a trap: no node, barrier, push or pop.   *)
OnlyTrap(reason, action) ==
    /\ Len(events) = 1
    /\ IsTrap(events[1], reason, action)
    /\ stopped
    /\ stack = entry

IsLoad(e) == e.op \in {"load", "load_flattened"}
IsStore(e) == e.op \in {"store", "store_flattened"}
IsBarrier(e, opcode) == e.op = "membar" /\ e.k = opcode

(* A static get or put of a static field.                                   *)
StaticAccess == FieldDone /\ ~iter.is_field /\ iter.field.is_static

IsClassInitializer(m) == m.is_static /\ m.name = "<clinit>"
IsConstructor(m) == ~m.is_static /\ m.name = "<init>"

(* Own class initializer, or constructor of the class or of a subclass.     *)
OwnInitializerOrConstructor(m, holder) ==
    \/ IsClassInitializer(m) /\ m.holder = holder
    \/ IsConstructor(m) /\ is_subclass_of(m.holder, holder)

(* Class initializer or constructor, of the class or of a subclass.         *)
InitializerOrConstructor(m, holder) ==
    /\ is_subclass_of(m.holder, holder)
    /\ IsClassInitializer(m) \/ IsConstructor(m)

(* C1 as claimed: a static access to a class that is not initialized, from  *)
(* a method that is neither that class's own class initializer nor a        *)
(* constructor of the class or of a subclass, does nothing but emit the     *)
(* "uninitialized" trap with action reinterpret.                            *)
C1_AsClaimed ==
    StaticAccess /\ ~is_initialized(iter.field.holder_state)
                 /\ ~OwnInitializerOrConstructor(method, iter.field.holder)
        => OnlyTrap("Reason_uninitialized", "Action_reinterpret")

(* C1, amended: a static access to a class that is not initialized, from a  *)
(* method that is neither a class initializer nor a constructor of that     *)
(* class or of one of its subclasses, does nothing but emit the             *)
(* "uninitialized" trap with action reinterpret: no load, store, barrier,   *)
(* push or pop.  The class initializer of a strict subclass is permitted.   *)
C1_UninitializedStaticTraps ==
    StaticAccess /\ ~is_initialized(iter.field.holder_state)
                 /\ ~InitializerOrConstructor(method, iter.field.holder)
        => OnlyTrap("Reason_uninitialized", "Action_reinterpret")

(* A static method that is no class initializer put a static field of its   *)
(* own class before the class's initialization had started.                 *)
C1_Witness ==
    /\ StaticAccess /\ ~iter.is_get
    /\ iter.field.holder_state = "not_started"
    /\ iter.field.holder = method.holder
    /\ method.is_static /\ method.name = "other"
    /\ stopped

(* A static get ended in a load or a folded constant, a static put in a     *)
(* store.                                                                   *)
AccessEmitted ==
    IF iter.is_get
    THEN \/ \E i \in EvIdx : IsLoad(events[i])
         \/ Len(events) = 1 /\ events[1].op = "push"
    ELSE \E i \in EvIdx : IsStore(events[i])

(* C2 as claimed: a static access from the holder's own class initializer   *)
(* or from a constructor of the holder or of a subclass emits no trap and   *)
(* ends live with a load, a folded constant or a store.                     *)
C2_AsClaimed ==
    StaticAccess /\ OwnInitializerOrConstructor(method, iter.field.holder)
        => ~AnyTrap /\ ~stopped /\ AccessEmitted

(* The put finds a value that is no composite for a flattenable field.       *)
FlattenablePutOfNonComposite ==
    /\ ~iter.is_get /\ iter.field.is_flattenable
    /\ entry[Len(entry)].k # "vt"

(* C2, amended: a static access from the holder's own class initializer or  *)
(* from a constructor of the holder or of a subclass never emits the        *)
(* "uninitialized" trap, whatever the holder's initialization state.  A put *)
(* to a call-site-target field does nothing but emit the "unhandled" trap;  *)
(* a put of a non-composite value to a flattenable field ends in the        *)
(* null-check trap without a store; every other such access emits no trap   *)
(* and ends live with a load, a folded constant or a store.                 *)
C2_PermittedStaticAccess ==
    StaticAccess /\ OwnInitializerOrConstructor(method, iter.field.holder)
        => /\ \A i \in EvIdx : events[i].op = "trap" => events[i].k # "Reason_uninitialized"
           /\ IF ~iter.is_get /\ iter.field.is_call_site_target
              THEN OnlyTrap("Reason_unhandled", "Action_reinterpret")
              ELSE IF FlattenablePutOfNonComposite
              THEN /\ stopped
                   /\ IsTrap(events[Len(events)], "Reason_null_check", "Action_none")
                   /\ \A i \in EvIdx : ~IsStore(events[i])
              ELSE ~AnyTrap /\ ~stopped /\ AccessEmitted

(* A constructor of the subclass B put a static field of its superclass A   *)
(* before A's initialization had started, and the store was emitted.        *)
C2_Witness ==
    /\ StaticAccess /\ ~iter.is_get
    /\ iter.field.holder_state = "not_started"
    /\ iter.field.holder = "A" /\ method.holder = "B" /\ IsConstructor(method)
    /\ ~stopped
    /\ \E i \in EvIdx : IsStore(events[i])

(* The access got past the guards of do_field_access into do_get_xxx or     *)
(* do_put_xxx.                                                              *)
ReachedXxx ==
    /\ FieldDone
    /\ ~(iter.is_field /\ is_valuetype(iter.field.holder))
    /\ events # <<>>
    /\ events[1].op # "trap"

Volatile == iter.field.is_volatile

NoAcquireReleaseBarrier ==
    \A i \in EvIdx : ~IsBarrier(events[i], "MemBarAcquire")
                     /\ ~IsBarrier(events[i], "MemBarRelease")

(* C3 as claimed: every volatile get has an acquire load and an acquire     *)
(* barrier after it; every volatile put has a release barrier, then the     *)
(* address and the pop of the value, then a release store; a non-volatile   *)
(* access has neither barrier.                                              *)
C3_AsClaimed ==
    ReachedXxx =>
        /\ Volatile /\ iter.is_get =>
             \E i, j \in EvIdx :
                /\ i < j
                /\ events[i].op = "load" /\ events[i].mo = "acquire"
                /\ IsBarrier(events[j], "MemBarAcquire")
        /\ Volatile /\ ~iter.is_get =>
             \E i, a, j, k \in EvIdx :
                /\ i < a /\ a < j /\ j < k
                /\ IsBarrier(events[i], "MemBarRelease")
                /\ events[a].op = "adr"
                /\ events[j].op = "pop"
                /\ events[k].op = "store" /\ events[k].mo = "release"
        /\ ~Volatile => NoAcquireReleaseBarrier

(* C3, amended: a volatile get that emits a load emits the acquire barrier  *)
(* after it and none before it, and a scalar or reference load has acquire  *)
(* ordering; a volatile get folded to a constant emits no load and no       *)
(* barrier.  A volatile put emits the release barrier first, before the     *)
(* address computation and the pop of the value; a scalar or reference      *)
(* store it emits has release ordering, and it emits a store unless it ends *)
(* in the null-check trap of a flattenable field.  A non-volatile access    *)
(* emits neither an acquire nor a release barrier.                          *)
C3_VolatileBarriers ==
    ReachedXxx =>
        /\ Volatile /\ iter.is_get =>
             IF \E i \in EvIdx : IsLoad(events[i])
             THEN \E i, j \in EvIdx :
                    /\ i < j
                    /\ IsLoad(events[i])
                    /\ events[i].op = "load" => events[i].mo = "acquire"
                    /\ IsBarrier(events[j], "MemBarAcquire")
                    /\ \A h \in EvIdx : IsBarrier(events[h], "MemBarAcquire") => h = j
             ELSE \A i \in EvIdx : events[i].op # "membar"
        /\ Volatile /\ ~iter.is_get =>
             /\ IsBarrier(events[1], "MemBarRelease")
             /\ \A h \in EvIdx : IsBarrier(events[h], "MemBarRelease") => h = 1
             /\ \E a, j \in EvIdx : /\ 1 < a /\ a < j
                                    /\ events[a].op = "adr" /\ events[j].op = "pop"
             /\ \A k \in EvIdx : events[k].op = "store" => events[k].mo = "release"
             /\ (\E k \in EvIdx : IsStore(events[k])) \/ FlattenablePutOfNonComposite
        /\ ~Volatile => NoAcquireReleaseBarrier

(* A volatile reference field was put: release barrier, then release store. *)
C3_Witness ==
    /\ ReachedXxx /\ Volatile /\ ~iter.is_get /\ ~stopped
    /\ iter.field.layout_type = "T_OBJECT"
    /\ IsBarrier(events[1], "MemBarRelease")
    /\ \E k \in EvIdx : events[k].op = "store" /\ events[k].mo = "release"

(* The kind declared at the access site differs from the field's.           *)
KindMismatch == FieldDone /\ iter.is_field = iter.field.is_static

(* C4: an access whose declared kind differs from the field's kind does     *)
(* nothing but emit the "unhandled" trap, whatever the owning class.        *)
C4_KindMismatchTraps ==
    KindMismatch => /\ Len(events) = 1
                    /\ events[1].op = "trap" /\ events[1].k = "Reason_unhandled"
                    /\ stopped
                    /\ stack = entry

-----------------------------------------------------------------------------
(* Array allocation.                                                        *)

ANewArrayDone == iter.bc = "anewarray"

Count(op) == Cardinality({i \in EvIdx : events[i].op = op})

(* C5: newarray of a reference element whose array class is not loaded      *)
(* does nothing but emit the "unloaded" trap with action reinterpret: no    *)
(* pop of the length, no liveness hint, no allocation, no push.  With the   *)
(* class loaded, and not an uninitialized value type, it runs the hint,     *)
(* pops one length, emits one allocation and pushes one result.             *)
C5_NewarrayUnloadedTraps ==
    ANewArrayDone =>
        /\ ~iter.klass.loaded => OnlyTrap("Reason_unloaded", "Action_reinterpret")
        /\ iter.klass.loaded
             /\ ~(iter.klass.element_is_valuetype /\ ~iter.klass.element_initialized)
           => /\ Len(events) = 4
              /\ events[1].op = "kill_dead_locals"
              /\ events[2].op = "pop" /\ events[2].n = 1
              /\ events[3].op = "alloc" /\ events[3].args = entry
              /\ events[4].op = "push" /\ events[4].n = 1
              /\ ~stopped
              /\ stack = <<NewArray>>

(* anewarray of a class that is not loaded was lowered.                     *)
C5_Witness ==
    ANewArrayDone /\ ~iter.klass.loaded /\ stopped /\ stack = entry /\ Len(entry) = 1

MultiDone == iter.bc = "multianewarray"

IsCon(v) == v.k = "int" /\ v.lo = v.hi

(* 1 + d + d*d' + ... over the constant lengths entry[from..to], cut off    *)
(* above cap.                                                               *)
RECURSIVE CappedCount(_, _, _)
CappedCount(from, to, cap) ==
    IF from > to THEN 1
    ELSE IF entry[from].lo > cap THEN cap + 1
    ELSE LET rest == CappedCount(from + 1, to, cap)
             total == 1 + entry[from].lo * rest
         IN  IF total > cap THEN cap + 1 ELSE total

Inlined ==
    /\ Count("call") = 0
    /\ \E i \in EvIdx : events[i].op = "alloc" /\ events[i].k = "array_klass"

OutOfLine ==
    /\ Count("call") = 1
    /\ \A i \in EvIdx : events[i].op = "alloc" => events[i].k # "array_klass"

(* Every length but the innermost is a positive constant and the predicted  *)
(* number of allocations is within min(MultiArrayExpandLimit, 100).         *)
ExpansionLegal ==
    LET n == iter.ndimensions
    IN  \/ n = 1
        \/ /\ \A j \in 1..(n - 1) : IsCon(entry[j]) /\ entry[j].lo > 0
           /\ CappedCount(1, n - 1, MIN2(MultiArrayExpandLimit, 100))
                 <= MIN2(MultiArrayExpandLimit, 100)

(* The condition as claimed: every length but the outermost is a            *)
(* non-negative constant and their predicted count is within the limit.     *)
ExpansionLegalAsClaimed ==
    LET n == iter.ndimensions
    IN  \/ n = 1
        \/ /\ \A j \in 2..n : IsCon(entry[j]) /\ entry[j].lo >= 0
           /\ CappedCount(2, n, MIN2(MultiArrayExpandLimit, 100))
                 <= MIN2(MultiArrayExpandLimit, 100)

Lengths234 ==
    /\ iter.ndimensions = 3
    /\ entry = <<IntCon(2), IntCon(3), IntCon(4)>>

(* C6 as claimed: expansion exactly when the rank is 1 or every             *)
(* non-outermost length is a non-negative constant with the count within    *)
(* the limit; lengths [2,3,4] are expanded.                                 *)
C6_AsClaimed ==
    MultiDone =>
        /\ Inlined <=> ExpansionLegalAsClaimed
        /\ ~Inlined => OutOfLine
        /\ Lengths234 => Inlined

(* C6, amended: expansion, with no out-of-line call, exactly when the rank  *)
(* is 1 or every length except the innermost is a known positive constant   *)
(* and 1 + d0 + d0*d1 + ... over those lengths is at most                   *)
(* min(MultiArrayExpandLimit, 100); otherwise the out-of-line call.         *)
(* Lengths [2,3,4] predict 9 allocations and are expanded when              *)
(* MultiArrayExpandLimit is at least 9.                                     *)
C6_ExpansionHeuristic ==
    MultiDone =>
        /\ ExpansionLegal => Inlined
        /\ ~ExpansionLegal => OutOfLine /\ ~Inlined
        /\ Lengths234 => (Inlined <=> MultiArrayExpandLimit >= 9)

(* new T[2][3][4] was expanded in line.                                     *)
C6_Witness == MultiDone /\ Lengths234 /\ Inlined /\ Count("alloc") = 9

TheCall == CHOOSE i \in EvIdx : events[i].op = "call"

(* C7: when the heuristic fails there is exactly one runtime call and no    *)
(* allocation of the result in line; for rank 2..5 the call is to the entry *)
(* point of that rank with the lengths as arguments, outermost first; for   *)
(* a higher rank one int array of the rank's size is allocated, length j is *)
(* stored at index j, and the N-dimensional entry point is called with it.  *)
(* The call gets its exceptional exit and no trap is emitted.               *)
C7_OutOfLineCall ==
    MultiDone /\ ~ExpansionLegal =>
        LET n == iter.ndimensions
            c == TheCall
        IN  /\ OutOfLine
            /\ ~AnyTrap /\ ~stopped
            /\ c < Len(events) /\ events[c + 1].op = "slow_call_ex"
            /\ n \in 2..5 =>
                 /\ events[c].k = (CASE n = 2 -> "multianewarray2_Java"
                                     [] n = 3 -> "multianewarray3_Java"
                                     [] n = 4 -> "multianewarray4_Java"
                                     [] n = 5 -> "multianewarray5_Java")
                 /\ events[c].args = entry
                 /\ Count("alloc") = 0
                 /\ Count("store") = 0
            /\ n > 5 =>
                 /\ events[c].k = "multianewarrayN_Java"
                 /\ Len(events[c].args) = 1 /\ events[c].args[1].k = "dims"
                 /\ Count("alloc") = 1
                 /\ Count("store") = n
                 /\ \E a \in EvIdx :
                      /\ events[a].op = "alloc" /\ events[a].k = "int[]"
                      /\ events[a].args = <<IntCon(n)>>
                      /\ \A j \in 0..(n - 1) :
                           /\ a + 1 + j < c
                           /\ events[a + 1 + j].op = "store"
                           /\ events[a + 1 + j].k = "T_INT"
                           /\ events[a + 1 + j].n = j
                           /\ events[a + 1 + j].args = <<entry[j + 1]>>

(* new T[n][..] with n no constant was lowered to the rank-2 call.          *)
C7_Witness ==
    /\ MultiDone /\ iter.ndimensions = 2 /\ ~IsCon(entry[1])
    /\ Count("call") = 1 /\ events[TheCall].k = "multianewarray2_Java"

-----------------------------------------------------------------------------
(* C9: a trap is the last thing a handler does: once it is emitted the path *)
(* is terminated and no node, barrier, push, pop or flag follows it; and a  *)
(* path is terminated only by a trap.                                       *)
C9_NothingAfterTrap ==
    /\ \A i \in EvIdx : events[i].op = "trap" => i = Len(events) /\ stopped
    /\ stopped => events # <<>> /\ events[Len(events)].op = "trap"

(* A putfield that ended in a trap after it had emitted and popped.         *)
C9_Witness ==
    /\ FieldDone /\ iter.is_field /\ ~iter.is_get
    /\ stopped /\ Len(events) > 1
    /\ events[Len(events)].op = "trap"

ExpectedStoreOrder ==
    IF iter.field.is_volatile THEN "release"
    ELSE IF iter.field.layout_type \in {"T_OBJECT", "T_VALUETYPE"} THEN "release"
    ELSE "unordered"

FieldPutDone == FieldDone /\ ~iter.is_get

(* C10 as claimed: every store a put emits, that of a flattened field       *)
(* included, has the ordering release if volatile, else release if a        *)
(* reference, else unordered.                                               *)
C10_AsClaimed ==
    FieldPutDone =>
        \A i \in EvIdx : IsStore(events[i]) => events[i].mo = ExpectedStoreOrder

(* C10, amended: every scalar or reference store a put emits has the        *)
(* ordering release if the field is volatile, else release if the value is  *)
(* a reference (a value-type field that is not flattened included), else    *)
(* unordered; a flattened field is stored by the composite store, which is  *)
(* given no ordering.  A put that does not trap emits exactly one of them.  *)
C10_StoreOrdering ==
    FieldPutDone =>
        /\ \A i \in EvIdx : events[i].op = "store" =>
              /\ events[i].mo = ExpectedStoreOrder
              /\ ~iter.field.is_flattened
        /\ \A i \in EvIdx : events[i].op = "store_flattened" =>
              /\ events[i].mo = ""
              /\ iter.field.is_flattened
        /\ ~stopped => Count("store") + Count("store_flattened") = 1

(* A non-volatile reference field was put with a release store.             *)
C10_Witness ==
    /\ FieldPutDone /\ ~stopped
    /\ ~iter.field.is_volatile /\ iter.field.layout_type = "T_OBJECT"
    /\ \E i \in EvIdx : events[i].op = "store" /\ events[i].mo = "release"

-----------------------------------------------------------------------------
(* The record of volatile writes.                                           *)

(* A put of a volatile field that do_put_xxx carried through without a trap. *)
VolatilePutCompleted == FieldPutDone /\ iter.field.is_volatile /\ ~stopped

(* The same of an instance field, by putfield.                              *)
VolatilePutfieldCompleted == VolatilePutCompleted /\ iter.is_field

(* A fat barrier follows the store of the put.                              *)
FatBarrierAfterStore ==
    \E i, j \in EvIdx :
        /\ i < j
        /\ IsStore(events[i])
        /\ IsBarrier(events[j], "MemBarVolatile")

(* Every completed volatile put has the fat barrier after its store exactly *)
(* on a platform that does not put the barrier before volatile loads.       *)
FatBarrierUnlessIRIW ==
    VolatilePutCompleted => (FatBarrierAfterStore <=> ~support_IRIW)

(* C11 as claimed: the flag is set exactly when some volatile put, instance *)
(* or static, has completed on the path; it is never cleared; each such put *)
(* has the fat barrier after its store exactly when not in the IRIW mode.   *)
C11_AsClaimed ==
    /\ ~wrote_volatile
    /\ [][wrote_volatile' = (wrote_volatile \/ VolatilePutCompleted')]_vars
    /\ []FatBarrierUnlessIRIW

(* C11, amended: the flag is unset at the start of a path, and a step sets  *)
(* it exactly when it is a putfield (a put of an instance field) of a       *)
(* volatile field that completes without a trap; a volatile putstatic       *)
(* leaves it as it was, and no step clears it.  Every completed volatile    *)
(* put, instance or static, has the fat barrier after its store exactly     *)
(* when the platform is not in the IRIW mode.                               *)
C11_WroteVolatile ==
    /\ ~wrote_volatile
    /\ [][wrote_volatile' = (wrote_volatile \/ VolatilePutfieldCompleted')]_vars
    /\ []FatBarrierUnlessIRIW

(* A volatile putfield completed on a platform not in the IRIW mode: the    *)
(* flag is set and the fat barrier follows the store.                       *)
C11_Witness ==
    /\ VolatilePutfieldCompleted
    /\ ~support_IRIW
    /\ wrote_volatile
    /\ FatBarrierAfterStore
    /\ \E i \in EvIdx : events[i].op = "flag" /\ events[i].k = "wrote_volatile"

-----------------------------------------------------------------------------
(* The size of the inline expansion.                                        *)

(* d0 * ... * d(j-1) over the lengths the bytecode found.                   *)
RECURSIVE FanoutTo(_)
FanoutTo(j) == IF j = 0 THEN 1 ELSE FanoutTo(j - 1) * entry[j].lo

(* 1 + d0 + d0*d1 + ... + d0*...*d(k-1).                                    *)
RECURSIVE AllocationsTo(_)
AllocationsTo(k) == IF k = 0 THEN 1 ELSE AllocationsTo(k - 1) + FanoutTo(k)

ExpansionStores ==
    {i \in EvIdx : events[i].op = "store"}

(* C12: when a multianewarray of rank n >= 2 is expanded in line, every     *)
(* length but the innermost is a constant and the expansion emits exactly   *)
(* 1 + d0 + d0*d1 + ... + d0*...*d(n-2) allocations, which is the           *)
(* expand_count of the heuristic and at most min(MultiArrayExpandLimit,     *)
(* 100); it emits one unordered reference store for each nested sub-array,  *)
(* expand_count - 1 of them, and ends with the result pushed.               *)
C12_ExpansionSize ==
    MultiDone /\ iter.ndimensions >= 2 /\ Inlined =>
        LET n == iter.ndimensions
            predicted == AllocationsTo(n - 1)
        IN  /\ \A j \in 1..(n - 1) : IsCon(entry[j])
            /\ Count("alloc") = predicted
            /\ predicted = expand_count_loop(entry, n, 0, 1, 1)
            /\ predicted <= MIN2(MultiArrayExpandLimit, 100)
            /\ Cardinality(ExpansionStores) = predicted - 1
            /\ \A i \in ExpansionStores :
                 events[i].k = "T_OBJECT" /\ events[i].mo = "unordered"
            /\ Count("guarantee") = 0
            /\ ~stopped
            /\ events[Len(events)].op = "push"

(* new T[2][3][n] was expanded: nine allocations and eight stores.          *)
C12_Witness ==
    /\ MultiDone /\ iter.ndimensions = 3
    /\ entry[1] = IntCon(2) /\ entry[2] = IntCon(3) /\ ~IsCon(entry[3])
    /\ Count("alloc") = 9
    /\ Cardinality(ExpansionStores) = 8
    /\ Count("call") = 0

====
